---- MODULE Spec2Model ----
(***************************************************************************)
(* The streaming chat core of the RFP response agent front end:            *)
(*   - api.streamPost, the async generator that decodes the chunked        *)
(*     "data: ..." / "event: done" response body into payloads;            *)
(*   - ChatPage, the React component whose handleSend drives one           *)
(*     send/receive cycle and whose handleNewConversation switches the     *)
(*     active conversation.                                                *)
(* Text is a sequence of one-character strings; the transport carries      *)
(* UTF-8 bytes, an ASCII byte being written as its character.              *)
(***************************************************************************)
EXTENDS Integers, Sequences, FiniteSets, TLC

\* ------------------------------------------------------------------ bounds

\* Lines of a response body in the decoder specification.
MaxLines == 3
\* Longest chunk the transport delivers short of "all that is left".
MaxChunk == 3

\* ------------------------------------------------------------- characters

NL == "\n"
\* U+00E9, two bytes in UTF-8
EAcute == "U+00E9"
LeadByte == "C3"
ContByte == "A9"
\* U+FFFD, what TextDecoder emits for a malformed sequence
Replacement == "FFFD"

\* "data: "
DataPrefix == <<"d", "a", "t", "a", ":", " ">>
\* "event: done"
DonePrefix == <<"e", "v", "e", "n", "t", ":", " ", "d", "o", "n", "e">>
\* line.slice(6)
SliceStart == 6

\* ---------------------------------------------------------- string helpers

\* String.prototype.startsWith
StartsWith(s, p) == Len(s) >= Len(p) /\ SubSeq(s, 1, Len(p)) = p

\* String.prototype.slice(n), n >= 0
Slice(s, n) == SubSeq(s, n + 1, Len(s))

\* the index of the first newline of s, 0 when it has none
FirstNL(s) ==
    IF \E i \in 1..Len(s) : s[i] = NL
    THEN CHOOSE i \in 1..Len(s) : s[i] = NL /\ \A j \in 1..(i - 1) : s[j] # NL
    ELSE 0

RECURSIVE Split(_)
\* String.prototype.split("\n"): always at least one segment
Split(s) ==
    LET i == FirstNL(s)
    IN IF i = 0 THEN <<s>>
       ELSE <<SubSeq(s, 1, i - 1)>> \o Split(SubSeq(s, i + 1, Len(s)))

RECURSIVE Concat(_)
\* the concatenation of a sequence of texts
Concat(ss) == IF ss = <<>> THEN <<>> ELSE Head(ss) \o Concat(Tail(ss))

\* ------------------------------------------------------------------ UTF-8

RECURSIVE Utf8Encode(_)
\* what the server writes for a text (halves encoded one after the other)
Utf8Encode(s) ==
    IF Len(s) = 0 THEN <<>>
    ELSE IF Len(s) = 1 THEN (IF s[1] = EAcute THEN <<LeadByte, ContByte>> ELSE s)
    ELSE LET h == Len(s) \div 2
         IN Utf8Encode(SubSeq(s, 1, h)) \o Utf8Encode(SubSeq(s, h + 1, Len(s)))

\* What TextDecoder emits for the byte at position i of the bytes it has to
\* decode: a lead byte emits nothing when its continuation follows or when it
\* is the last byte (held back), U+FFFD otherwise; a continuation byte
\* completes the lead byte before it, and is malformed on its own.
DecodeAt(full, i) ==
    IF full[i] = LeadByte
    THEN IF i < Len(full) /\ full[i + 1] # ContByte THEN <<Replacement>> ELSE <<>>
    ELSE IF full[i] = ContByte
    THEN IF i > 1 /\ full[i - 1] = LeadByte THEN <<EAcute>> ELSE <<Replacement>>
    ELSE <<full[i]>>

RECURSIVE DecodeRange(_, _, _)
\* the text decoded from positions lo..hi
DecodeRange(full, lo, hi) ==
    IF lo > hi THEN <<>>
    ELSE IF lo = hi THEN DecodeAt(full, lo)
    ELSE LET mid == (lo + hi) \div 2
         IN DecodeRange(full, lo, mid) \o DecodeRange(full, mid + 1, hi)

\* decoder.decode(value): without the stream flag the incomplete tail is
\* flushed as U+FFFD and nothing is carried over
FlushDecode(pending, bytes) ==
    [text |-> DecodeRange(bytes, 1, Len(bytes))
                \o (IF bytes # <<>> /\ bytes[Len(bytes)] = LeadByte
                    THEN <<Replacement>> ELSE <<>>),
     pending |-> <<>>]

\* decoder.decode(value, { stream: true }): an incomplete sequence at the end of
\* the chunk is held back (pending) for the next call
StreamDecode(pending, bytes) ==
    LET full == pending \o bytes
    IN [text |-> DecodeRange(full, 1, Len(full)),
        pending |-> IF full # <<>> /\ full[Len(full)] = LeadByte
                    THEN <<LeadByte>> ELSE <<>>]

\* --------------------------------------------------- api.streamPost (generator)

\* The generator right after the call: nothing fetched yet.
\*   state   "fetch" | "read" | "returned" | "threw"
\*   decoder the TextDecoder's held-back bytes
\*   buffer  the text after the last complete line
\*   yielded the payloads yielded so far, in order
\*   marker  whether the generator returned on a terminal line
\*   dones   how many terminal lines made it return
NewGen ==
    [state |-> "fetch", decoder |-> <<>>, buffer |-> <<>>, yielded |-> <<>>,
     marker |-> FALSE, dones |-> 0]

\* fetch resolved with res.ok and a readable body
GenOpen(g) == [g EXCEPT !.state = "read"]

\* res.body is null: `if (!reader) return`
GenNoBody(g) == [g EXCEPT !.state = "returned"]

\* a failure that frames what is left in the buffer before it throws
GenThrowFlushes(g) == [g EXCEPT !.state = "threw", !.yielded = Append(@, g.buffer)]

\* fetch rejected, !res.ok, or reader.read() rejected
GenThrow(g) == [g EXCEPT !.state = "threw"]

\* an end-of-stream without a terminal line taken for a failure
GenEndThrows(g) == [g EXCEPT !.state = IF g.marker THEN "returned" ELSE "threw"]

\* reader.read() gave done: `if (done) break`
GenEnd(g) == [g EXCEPT !.state = "returned"]

RECURSIVE ForLinesNoReturn(_, _)
\* ForLines without the `return` of the terminal branch
ForLinesNoReturn(lines, g) ==
    IF lines = <<>> THEN g
    ELSE IF StartsWith(Head(lines), DataPrefix)
    THEN ForLinesNoReturn(Tail(lines),
                          [g EXCEPT !.yielded = Append(@, Slice(Head(lines), SliceStart))])
    ELSE ForLinesNoReturn(Tail(lines), g)

RECURSIVE ForLinesReturnAtEnd(_, _)
\* ForLines that notes the terminal line and returns only after the last line
\* of the chunk
ForLinesReturnAtEnd(lines, g) ==
    IF lines = <<>> THEN g
    ELSE IF StartsWith(Head(lines), DataPrefix)
    THEN ForLinesReturnAtEnd(Tail(lines),
                             [g EXCEPT !.yielded = Append(@, Slice(Head(lines), SliceStart))])
    ELSE IF StartsWith(Head(lines), DonePrefix)
    THEN ForLinesReturnAtEnd(Tail(lines),
                             [g EXCEPT !.state = "returned", !.marker = TRUE, !.dones = 1])
    ELSE ForLinesReturnAtEnd(Tail(lines), g)

RECURSIVE ForLinesFramesAll(_, _)
\* ForLines that takes a line without a known prefix for a payload
ForLinesFramesAll(lines, g) ==
    IF lines = <<>> THEN g
    ELSE IF StartsWith(Head(lines), DataPrefix)
    THEN ForLinesFramesAll(Tail(lines),
                           [g EXCEPT !.yielded = Append(@, Slice(Head(lines), SliceStart))])
    ELSE IF StartsWith(Head(lines), DonePrefix)
    THEN [g EXCEPT !.state = "returned", !.marker = TRUE, !.dones = @ + 1]
    ELSE ForLinesFramesAll(Tail(lines), [g EXCEPT !.yielded = Append(@, Head(lines))])

RECURSIVE ForLines(_, _)
\* for (const line of lines) { ... yield ... return ... }
ForLines(lines, g) ==
    IF lines = <<>> THEN g
    ELSE IF StartsWith(Head(lines), DataPrefix)
    THEN ForLines(Tail(lines),
                  [g EXCEPT !.yielded = Append(@, Slice(Head(lines), SliceStart))])
    ELSE IF StartsWith(Head(lines), DonePrefix)
    THEN [g EXCEPT !.state = "returned", !.marker = TRUE, !.dones = @ + 1]
    ELSE ForLines(Tail(lines), g)

\* GenRead framing the unfinished last segment as well
GenReadEager(g, value) ==
    LET dec == StreamDecode(g.decoder, value)
        lines == Split(g.buffer \o dec.text)
    IN ForLines(lines, [g EXCEPT !.decoder = dec.pending, !.buffer = lines[Len(lines)]])

\* GenRead without the carry-over: the text left from the chunk before is
\* dropped instead of being put in front of the new text
GenReadNoCarry(g, value) ==
    LET dec == StreamDecode(g.decoder, value)
        lines == Split(dec.text)
    IN ForLines(SubSeq(lines, 1, Len(lines) - 1),
                [g EXCEPT !.decoder = dec.pending, !.buffer = lines[Len(lines)]])

\* One turn of the while loop with a chunk: decode, split, keep the last
\* segment as the buffer, frame the complete lines.
GenRead(g, value) ==
    LET dec == StreamDecode(g.decoder, value)
        lines == Split(g.buffer \o dec.text)
    IN ForLines(SubSeq(lines, 1, Len(lines) - 1),
                [g EXCEPT !.decoder = dec.pending, !.buffer = lines[Len(lines)]])

\* ----------------------------------------------------- decoder on its own
\* The generator fed one response body under every split into chunks.

VARIABLES
    dLines,   \* the lines of the body, as text, each to be newline-terminated
    dTail,    \* text after the last newline of the body (no newline follows)
    dBytes,   \* the body as the server wrote it
    dPos,     \* how many bytes the transport has delivered
    dCut,     \* where chunk boundaries have fallen so far (history)
    gen       \* the generator

\* Lines a body is made of: two data lines (one with a two-byte character),
\* the terminal line, a terminal line with trailing text, a blank line, a
\* field without the space after the colon.
LineSet ==
    { DataPrefix \o <<"H", "i">>,
      DataPrefix \o <<EAcute>>,
      DonePrefix,
      DonePrefix \o <<"!">>,
      <<>>,
      <<"d", "a", "t", "a", ":", "x">> }

\* What may follow the last newline of a body.
TailSet == { <<>>, DataPrefix \o <<"H", "i">>, DonePrefix }

RECURSIVE SeqsUpTo(_, _)
\* the sequences over S of length at most n
SeqsUpTo(S, n) ==
    IF n = 0 THEN {<<>>}
    ELSE LET shorter == SeqsUpTo(S, n - 1)
         IN shorter \cup {Append(q, x) : q \in {r \in shorter : Len(r) = n - 1}, x \in S}

RECURSIVE JoinLines(_)
\* each line followed by its newline
JoinLines(ls) == IF ls = <<>> THEN <<>> ELSE Head(ls) \o <<NL>> \o JoinLines(Tail(ls))

DecoderInit ==
    /\ dLines \in SeqsUpTo(LineSet, MaxLines)
    /\ dTail \in TailSet
    /\ dBytes = Utf8Encode(JoinLines(dLines) \o dTail)
    /\ dPos = 0
    /\ dCut = {}
    /\ gen = NewGen

\* Where the chunk boundary just passed fell: inside a line, inside a
\* character, inside a line that so far reads as the start of "event: done".
CutTags(g) ==
    (IF g.state = "read" /\ g.buffer # <<>> THEN {"line"} ELSE {})
    \cup (IF g.state = "read" /\ g.decoder # <<>> THEN {"char"} ELSE {})
    \cup (IF g.state = "read" /\ g.buffer # <<>> /\ StartsWith(DonePrefix, g.buffer)
          THEN {"marker"} ELSE {})

\* fetch resolves with a readable body
DecOpen ==
    /\ gen.state = "fetch"
    /\ gen' = GenOpen(gen)
    /\ UNCHANGED <<dLines, dTail, dBytes, dPos, dCut>>

\* reader.read() resolves with the next k bytes
DecRead(k) ==
    /\ gen.state = "read"
    /\ dPos + k <= Len(dBytes)
    /\ gen' = GenRead(gen, SubSeq(dBytes, dPos + 1, dPos + k))
    /\ dPos' = dPos + k
    /\ dCut' = dCut \cup CutTags(gen')
    /\ UNCHANGED <<dLines, dTail, dBytes>>

\* reader.read() resolves with done: the body is exhausted
DecEnd ==
    /\ gen.state = "read"
    /\ dPos = Len(dBytes)
    /\ gen' = GenEnd(gen)
    /\ UNCHANGED <<dLines, dTail, dBytes, dPos, dCut>>

\* reader.read() rejects
DecFail ==
    /\ gen.state = "read"
    /\ gen' = GenThrow(gen)
    /\ UNCHANGED <<dLines, dTail, dBytes, dPos, dCut>>

\* fetch rejects, or the status is not ok: `throw new ApiError(...)`
DecRefuse ==
    /\ gen.state = "fetch"
    /\ gen' = GenThrow(gen)
    /\ UNCHANGED <<dLines, dTail, dBytes, dPos, dCut>>

\* ------------------------------------------------- properties: the decoder

\* the whole body delivered as one chunk, then end-of-stream
OneShot ==
    LET g == GenRead(GenOpen(NewGen), dBytes)
    IN IF g.state = "returned" THEN g ELSE GenEnd(g)

\* C1: whatever the split of a body into chunks (single bytes, empty chunks,
\* one chunk), a generator that has returned has yielded the payloads the
\* one-chunk delivery yields, and has ended on the terminal marker exactly when
\* the one-chunk delivery does.
ChunkBoundaryIndependence ==
    gen.state = "returned"
        => /\ gen.yielded = OneShot.yielded
           /\ gen.marker = OneShot.marker

\* a body with a terminal line, decoded to the end from chunks that cut a
\* line and a two-byte character in two
SplitStreamDecoded ==
    /\ gen.state = "returned"
    /\ gen.marker
    /\ {"line", "char"} \subseteq dCut
    /\ Len(gen.yielded) >= 2

RECURSIVE PayloadsBeforeDone(_)
\* the text after "data: " of the data lines ahead of the first terminal line
PayloadsBeforeDone(ls) ==
    IF ls = <<>> THEN <<>>
    ELSE IF StartsWith(Head(ls), DonePrefix) THEN <<>>
    ELSE IF StartsWith(Head(ls), DataPrefix)
    THEN <<SubSeq(Head(ls), Len(DataPrefix) + 1, Len(Head(ls)))>>
             \o PayloadsBeforeDone(Tail(ls))
    ELSE PayloadsBeforeDone(Tail(ls))

HasDoneLine(ls) == \E n \in 1..Len(ls) : StartsWith(ls[n], DonePrefix)

IsPrefixOf(p, q) == Len(p) <= Len(q) /\ SubSeq(q, 1, Len(p)) = p

\* C2: of a body whose lines are all newline-terminated, the generator yields
\* exactly the payloads of the data lines ahead of the first terminal line, in
\* their order: never anything else on the way, and all of them once it has
\* returned; it returns on the marker exactly when the body has a terminal
\* line.
YieldsDataLinesBeforeDone ==
    dTail = <<>>
        => /\ IsPrefixOf(gen.yielded, PayloadsBeforeDone(dLines))
           /\ gen.state = "returned"
                  => /\ gen.yielded = PayloadsBeforeDone(dLines)
                     /\ gen.marker = HasDoneLine(dLines)

\* two data lines and the terminal line, newline-terminated, decoded to the
\* end from chunks that cut a line
TwoDataThenDoneDecoded ==
    /\ dTail = <<>>
    /\ Len(dLines) = 3
    /\ StartsWith(dLines[1], DataPrefix)
    /\ StartsWith(dLines[2], DataPrefix)
    /\ dLines[3] = DonePrefix
    /\ "line" \in dCut
    /\ gen.state = "returned"
    /\ gen.marker
    /\ Len(gen.yielded) = 2

RECURSIVE DoneEndFrom(_, _)
DoneEndFrom(ls, off) ==
    IF ls = <<>> THEN 0
    ELSE LET end == off + Len(Utf8Encode(Head(ls))) + 1
         IN IF StartsWith(Head(ls), DonePrefix) THEN end
            ELSE DoneEndFrom(Tail(ls), end)

\* the number of bytes up to and including the newline of the first terminal
\* line of the body, 0 when it has none
FirstDoneEnd == DoneEndFrom(dLines, 0)

\* C3: a terminal line is recognised exactly once and only once the chunk
\* with its newline has been processed: the generator has returned on the
\* marker exactly when the bytes delivered reach past that newline, whatever
\* the chunk boundaries inside the line, and it never does so twice.
MarkerRecognisedOnce ==
    /\ gen.dones <= 1
    /\ gen.marker <=> (gen.dones = 1)
    /\ (gen.dones = 1) <=> (FirstDoneEnd > 0 /\ dPos >= FirstDoneEnd)
    /\ gen.marker => gen.state = "returned"

\* the generator has returned on a terminal line that arrived in pieces
SplitMarkerRecognised ==
    /\ "marker" \in dCut
    /\ gen.state = "returned"
    /\ gen.marker
    /\ gen.dones = 1

\* the bytes of the first n lines of the body, newlines included
BytesOfLines(n) == Len(Utf8Encode(JoinLines(SubSeq(dLines, 1, n))))

\* the lines of the body whose newline is among the bytes delivered
LinesDelivered ==
    SubSeq(dLines, 1,
           CHOOSE n \in 0..Len(dLines) :
               /\ BytesOfLines(n) <= dPos
               /\ n < Len(dLines) => BytesOfLines(n + 1) > dPos)

\* C15: at every point of every delivery, what the generator has yielded is
\* the payloads, in the order of the body, of the data lines whose newline has
\* been delivered (up to the first terminal line): nothing of a line still
\* open, nothing twice, nothing missing, nothing out of order.
YieldsCompleteLinesInOrder == gen.yielded = PayloadsBeforeDone(LinesDelivered)

\* one payload yielded, and a second data line delivered in part, its payload
\* begun, its newline still to come
SecondLineStillOpen ==
    /\ gen.state = "read"
    /\ Len(gen.yielded) = 1
    /\ StartsWith(gen.buffer, DataPrefix)
    /\ Len(gen.buffer) > Len(DataPrefix)
    /\ Len(dLines) >= 2
    /\ StartsWith(dLines[2], DataPrefix)
    /\ dPos < BytesOfLines(2)

\* C16: when the transport closes on a body that ends in a data line without
\* a newline (and has no terminal line), the generator has yielded the payload
\* of that line, after those of the lines before it, by the time it returns.
LastLineEmittedAtEndOfStream ==
    (/\ gen.state = "returned"
     /\ ~gen.marker
     /\ dPos = Len(dBytes)
     /\ StartsWith(dTail, DataPrefix))
        => gen.yielded = Append(PayloadsBeforeDone(dLines), Slice(dTail, SliceStart))

\* a line the framing acts on
IsFramed(l) == StartsWith(l, DataPrefix) \/ StartsWith(l, DonePrefix)

\* the body without its lines of neither prefix, delivered as one chunk, then
\* end-of-stream
OneShotFramedOnly ==
    LET g == GenRead(GenOpen(NewGen),
                     Utf8Encode(JoinLines(SelectSeq(dLines, IsFramed)) \o dTail))
    IN IF g.state = "returned" THEN g ELSE GenEnd(g)

\* C18: complete lines that start with neither prefix (blank lines, a field
\* without the space) leave no trace: a read never makes the generator throw,
\* and a generator that has returned has yielded, and has ended on the marker,
\* as it does for the body with those lines taken out.
OtherLinesAreIgnored ==
    /\ gen.state = "read"
           => GenRead(gen, SubSeq(dBytes, dPos + 1, Len(dBytes))).state # "threw"
    /\ gen.state = "returned"
           => /\ gen.yielded = OneShotFramedOnly.yielded
              /\ gen.marker = OneShotFramedOnly.marker

\* a blank line between two data lines, decoded to the end from chunks that
\* cut a line: both payloads yielded
BlankLineBetweenDataLines ==
    /\ Len(dLines) = 3
    /\ StartsWith(dLines[1], DataPrefix)
    /\ dLines[2] = <<>>
    /\ StartsWith(dLines[3], DataPrefix)
    /\ "line" \in dCut
    /\ gen.state = "returned"
    /\ Len(gen.yielded) = 2

\* ------------------------------------------------------------- ChatPage

VARIABLES
    activeConvId,  \* useState: the active conversation, Null when none
    messages,      \* useState: the transcript
    input,         \* useState: the input box
    streaming,     \* useState
    streamText,    \* useState
    rendered,      \* the state as of the last render: what the page shows and
                   \* what the handlers' closures captured
    sessions,      \* the locals of each call of handleSend that is past its
                   \* guard and has not returned
    sends,         \* calls of handleSend that passed the guard so far
    creating,      \* createConversation.mutateAsync calls not yet settled
    nextConv,      \* conversations the backend has created
    nextId,        \* crypto.randomUUID() calls so far
    settled,       \* the call of handleSend that returned last (history)
    op             \* the last handler or continuation that ran (history)

\* AuthProvider (src/frontend/src/lib/auth-context.tsx)
VARIABLES
    token,         \* localStorage "access_token": Null when absent
    user,          \* useState: Null, or the user of the token /auth/me answered
    loading,       \* useState
    mounted,       \* the mount effect has run
    fetches,       \* calls of fetchUser awaiting /auth/me: the token each sent
    posts,         \* calls of login and register awaiting their POST
    issued         \* access tokens the backend has issued in this behaviour

decoderVars == <<dLines, dTail, dBytes, dPos, dCut, gen>>
authVars == <<token, user, loading, mounted, fetches, posts, issued>>
stateVars == <<activeConvId, messages, input, streaming, streamText>>
pageVars == <<activeConvId, messages, input, streaming, streamText, rendered,
              sessions, sends, creating, nextConv, nextId, settled, op>>
vars == <<dLines, dTail, dBytes, dPos, dCut, gen, activeConvId, messages, input,
          streaming, streamText, rendered, sessions, sends, creating, nextConv,
          nextId, settled, op, token, user, loading, mounted, fetches, posts,
          issued>>
\* what a step of the chat page leaves alone, and what a step of the decoder does
offPage == <<decoderVars, authVars>>
offDecoder == <<pageVars, authVars>>

\* Calls of login and register in a behaviour.
MaxLogins == 2

\* Accepted sends in a behaviour.
MaxSends == 2
\* Conversations created in a behaviour.
MaxConvs == 2
\* Chunks the transport delivers for one response.
MaxReads == 2

\* useState<string | null>(null)
Null == 0

\* "Error: Failed to get response. Please try again."
ErrorText ==
    << "E", "r", "r", "o", "r", ":", " ", "F", "a", "i", "l", "e", "d", " ",
       "t", "o", " ", "g", "e", "t", " ", "r", "e", "s", "p", "o", "n", "s",
       "e", ".", " ", "P", "l", "e", "a", "s", "e", " ", "t", "r", "y", " ",
       "a", "g", "a", "i", "n", "." >>

\* What the input box may hold.
Inputs == { <<>>, <<" ">>, <<"q", " ">> }

\* What the transport delivers in one read of a chat response:
\*   "data: Hi\n", "event: done\n", "event: done\nevent: done\n",
\*   "data: Hi\nevent: done\ndata: Hi\n"
Chunks ==
    { DataPrefix \o <<"H", "i", NL>>,
      DonePrefix \o <<NL>>,
      DonePrefix \o <<NL>> \o DonePrefix \o <<NL>>,
      DataPrefix \o <<"H", "i", NL>> \o DonePrefix \o <<NL>>
          \o DataPrefix \o <<"H", "i", NL>> }

\* Reads of a response that carries no payload line: an SSE comment line ":\n",
\* the blank line "\n" that separates events, and the terminal line
\* "event: done\n".
QuietChunks == { <<":", NL>>, <<NL>>, DonePrefix \o <<NL>> }

RECURSIVE TrimStart(_)
TrimStart(s) == IF s # <<>> /\ Head(s) = " " THEN TrimStart(Tail(s)) ELSE s

RECURSIVE TrimEnd(_)
TrimEnd(s) ==
    IF s # <<>> /\ s[Len(s)] = " " THEN TrimEnd(SubSeq(s, 1, Len(s) - 1)) ELSE s

\* String.prototype.trim
\* a trim that leaves trailing white space in place
TrimLeadingOnly(s) == TrimStart(s)

Trim(s) == TrimEnd(TrimStart(s))

\* The state a render shows and the closures of that render capture.
Snapshot ==
    [input |-> input, activeConvId |-> activeConvId, streaming |-> streaming,
     streamText |-> streamText, messages |-> messages]

\* `{streaming && streamText && (<bubble>{streamText}</bubble>)}`: the text of
\* the live bubble a render with state r shows, none when it shows no bubble
Bubble(r) == IF r.streaming /\ r.streamText # <<>> THEN <<r.streamText>> ELSE <<>>

\* The texts a render with state r puts on the page: the content of each
\* message of the list, then the live bubble.
Shown(r) == [n \in 1..Len(r.messages) |-> r.messages[n].content] \o Bubble(r)

\* a user message that carries the assistant's role
UserMessageAsAssistant(id, conv, content) ==
    [id |-> id, conversation_id |-> conv, role |-> "assistant", content |-> content]

UserMessage(id, conv, content) ==
    [id |-> id, conversation_id |-> conv, role |-> "user", content |-> content]

AssistantMessage(id, conv, content) ==
    [id |-> id, conversation_id |-> conv, role |-> "assistant", content |-> content]

\* The locals of one run of handleSend past its guard.
\*   conv     activeConvId as the closure captured it
\*   body     the content posted
\*   fullText the accumulator of the for-await loop
\*   gen      the generator api.streamPost returned
\*   reads    the chunks the transport has delivered
\* a call whose accumulator starts from the streamText of the state
NewSessionFromStreamText(conv, content) ==
    [conv |-> conv, body |-> content, fullText |-> streamText, gen |-> NewGen,
     reads |-> 0]

NewSession(conv, content) ==
    [conv |-> conv, body |-> content, fullText |-> <<>>, gen |-> NewGen,
     reads |-> 0]

\* the sequence q without its i-th element
Without(q, i) == SubSeq(q, 1, i - 1) \o SubSeq(q, i + 1, Len(q))

\* What is kept of a call that returned: its conversation, what its generator
\* yielded, how it ended ("finalized" | "failed"; "none" before any), the chunks
\* it had read before the step that ended it.
Settled(s, g, outcome) ==
    [conv |-> s.conv, yielded |-> g.yielded, outcome |-> outcome, reads |-> s.reads]

\* AuthProvider as constructed, nothing stored: useState(null), useState(true)
AuthIdle ==
    /\ token = Null /\ user = Null /\ loading = TRUE /\ mounted = FALSE
    /\ fetches = <<>> /\ posts = <<>> /\ issued = 0

PageInit ==
    /\ activeConvId = Null
    /\ messages = <<>>
    /\ input = <<>>
    /\ streaming = FALSE
    /\ streamText = <<>>
    /\ rendered = Snapshot
    /\ sessions = <<>>
    /\ sends = 0
    /\ creating = 0
    /\ nextConv = 0
    /\ nextId = 0
    /\ settled = [conv |-> Null, yielded |-> <<>>, outcome |-> "none", reads |-> 0]
    /\ op = "mount"

\* the guard of handleSend without its test of `streaming`
SendGuardNoStreaming(c) == Trim(c.input) # <<>> /\ c.activeConvId # Null

\* `if (!input.trim() || !activeConvId || streaming) return`, read from the
\* closure c
SendGuard(c) == Trim(c.input) # <<>> /\ c.activeConvId # Null /\ ~c.streaming

\* handleSend up to its first suspension, run with the closure of the last
\* render
SendBody ==
    LET c == rendered
    IN IF ~SendGuard(c)
       THEN /\ op' = "sendIgnored"
            /\ UNCHANGED <<stateVars, sessions, sends, nextId>>
       ELSE /\ sends < MaxSends
            /\ sends' = sends + 1
            /\ messages' = Append(messages,
                                  UserMessage(nextId + 1, c.activeConvId, Trim(c.input)))
            /\ input' = <<>>
            /\ streaming' = TRUE
            /\ streamText' = <<>>
            /\ sessions' = Append(sessions, NewSession(c.activeConvId, Trim(c.input)))
            /\ nextId' = nextId + 1
            /\ op' = "send"
            /\ UNCHANGED activeConvId

\* handleSend called from an event handler: React commits the updates of the
\* event before the next event is dispatched
HandleSend ==
    /\ SendBody
    /\ rendered' = Snapshot'
    /\ UNCHANGED <<creating, nextConv, settled>>

\* handleSend called again before the updates of the previous call are
\* committed: the closure is still the one of the last render
HandleSendUncommitted ==
    /\ SendBody
    /\ UNCHANGED <<rendered, creating, nextConv, settled>>

\* a render scheduled by updates made outside an event handler
Render ==
    /\ rendered # Snapshot
    /\ rendered' = Snapshot
    /\ op' = "render"
    /\ UNCHANGED <<stateVars, sessions, sends, creating, nextConv, nextId, settled>>

\* onChange of the input box: setInput(e.target.value), committed with the
\* event.  The handlers are taken to run whenever the page is mounted: the
\* `disabled` attributes and the conditional rendering of the input are not
\* relied on.
SetInput(v) ==
    /\ v # input
    /\ input' = v
    /\ op' = "typed"
    /\ UNCHANGED <<activeConvId, messages, streaming, streamText>>
    /\ rendered' = Snapshot'
    /\ UNCHANGED <<sessions, sends, creating, nextConv, nextId, settled>>

\* a handleNewConversation that makes the conversation active before the
\* create call has resolved
NewConversationClickOptimistic ==
    /\ nextConv + creating < MaxConvs
    /\ creating' = creating + 1
    /\ activeConvId' = nextConv + creating + 1
    /\ messages' = <<>>
    /\ op' = "newChat"
    /\ UNCHANGED <<input, streaming, streamText, rendered, sessions, sends, nextConv,
                   nextId, settled>>

\* handleNewConversation up to `await createConversation.mutateAsync(...)`
NewConversationClick ==
    /\ nextConv + creating < MaxConvs
    /\ creating' = creating + 1
    /\ op' = "newChat"
    /\ UNCHANGED <<stateVars, rendered, sessions, sends, nextConv, nextId, settled>>

\* the create call resolved: setActiveConvId(conv.id); setMessages([])
CreateResolved ==
    /\ creating > 0
    /\ creating' = creating - 1
    /\ nextConv' = nextConv + 1
    /\ activeConvId' = nextConv + 1
    /\ messages' = <<>>
    /\ op' = "created"
    /\ UNCHANGED <<input, streaming, streamText, rendered, sessions, sends, nextId,
                   settled>>

\* the create call rejected: nothing after the await runs
CreateFailed ==
    /\ creating > 0
    /\ creating' = creating - 1
    /\ op' = "createFailed"
    /\ UNCHANGED <<stateVars, rendered, sessions, sends, nextConv, nextId, settled>>

\* What the messages query may resolve to for conversation conv: no message
\* yet, or the user message the backend has stored (under its own id).
ServerLists(conv) ==
    { <<>>,
      << [id |-> -1, conversation_id |-> conv, role |-> "user", content |-> <<"q">>] >> }

\* useMessages resolved or refetched for the conversation of the last render
\* and the effect ran: `if (loadedMessages) setMessages(loadedMessages)`
MessagesLoaded(list) ==
    /\ rendered.activeConvId # Null
    /\ list # messages
    /\ messages' = list
    /\ op' = "loaded"
    /\ UNCHANGED <<activeConvId, input, streaming, streamText, rendered, sessions,
                   sends, creating, nextConv, nextId, settled>>

\* a loop body that keeps the last payload only
ConsumeLast(fullText, yields) ==
    IF yields = <<>> THEN fullText ELSE yields[Len(yields)]

RECURSIVE Consume(_, _)
\* for await (const chunk of stream) { fullText += chunk; ... }: fullText after
\* the payloads `yields`
Consume(fullText, yields) ==
    IF yields = <<>> THEN fullText
    ELSE Consume(fullText \o Head(yields), Tail(yields))

\* an assistant message built from the streamText of the closure
FinalContentOfClosure(fullText) == rendered.streamText

\* an assistant message that shows a placeholder when nothing was received
FinalContentOrPlaceholder(fullText) == IF fullText = <<>> THEN <<"?">> ELSE fullText

\* `content: fullText` of the assistant message
FinalContent(fullText) == fullText

\* a handler that finalizes on the terminal line and again on the close of the
\* stream: two assistant messages for one send
FinalizeOnDoneAndOnClose(i, g, fullText) ==
    /\ sessions' = Without(sessions, i)
    /\ settled' = Settled(sessions[i], g, "finalized")
    /\ messages' = messages
                      \o << AssistantMessage(nextId + 1, sessions[i].conv, fullText),
                            AssistantMessage(nextId + 2, sessions[i].conv, fullText) >>
    /\ nextId' = nextId + 2
    /\ streamText' = <<>>
    /\ streaming' = FALSE
    /\ UNCHANGED <<activeConvId, input, rendered, sends, creating, nextConv>>

\* The loop ended without a throw: the assistant message is appended,
\* setStreamText(""), the finally clause runs and handleSend returns.
Finalize(i, g, fullText) ==
    /\ sessions' = Without(sessions, i)
    /\ settled' = Settled(sessions[i], g, "finalized")
    /\ messages' = Append(messages,
                          AssistantMessage(nextId + 1, sessions[i].conv,
                                           FinalContent(fullText)))
    /\ nextId' = nextId + 1
    /\ streamText' = <<>>
    /\ streaming' = FALSE
    /\ UNCHANGED <<activeConvId, input, rendered, sends, creating, nextConv>>

\* a catch clause that commits the text received so far as the reply
CatchCommitsPartial(i, g) ==
    /\ sessions' = Without(sessions, i)
    /\ settled' = Settled(sessions[i], g, "failed")
    /\ messages' = Append(messages,
                          AssistantMessage(nextId + 1, sessions[i].conv,
                                           sessions[i].fullText))
    /\ nextId' = nextId + 1
    /\ streamText' = ErrorText
    /\ streaming' = FALSE
    /\ UNCHANGED <<activeConvId, input, rendered, sends, creating, nextConv>>

\* a catch clause that also withdraws the user message of the send
CatchRollsBack(i, g) ==
    /\ sessions' = Without(sessions, i)
    /\ settled' = Settled(sessions[i], g, "failed")
    /\ messages' = SubSeq(messages, 1, Len(messages) - 1)
    /\ streamText' = ErrorText
    /\ streaming' = FALSE
    /\ UNCHANGED <<activeConvId, input, rendered, sends, creating, nextConv, nextId>>

\* a handler without the finally clause: the flag stays set after a failure
CatchKeepsStreaming(i, g) ==
    /\ sessions' = Without(sessions, i)
    /\ settled' = Settled(sessions[i], g, "failed")
    /\ streamText' = ErrorText
    /\ UNCHANGED <<activeConvId, messages, input, streaming, rendered, sends, creating,
                   nextConv, nextId>>

\* The generator threw: the catch clause, the finally clause, and handleSend
\* returns.
Catch(i, g) ==
    /\ sessions' = Without(sessions, i)
    /\ settled' = Settled(sessions[i], g, "failed")
    /\ streamText' = ErrorText
    /\ streaming' = FALSE
    /\ UNCHANGED <<activeConvId, messages, input, rendered, sends, creating, nextConv,
                   nextId>>

\* What handleSend does once the generator g of call i is finished.
Settle(i, g, fullText) ==
    IF g.state = "threw" THEN Catch(i, g) ELSE Finalize(i, g, fullText)

\* fetch resolved with res.ok and a body
StreamOpen(i) ==
    /\ sessions[i].gen.state = "fetch"
    /\ sessions' = [sessions EXCEPT ![i].gen = GenOpen(@)]
    /\ op' = "open"
    /\ UNCHANGED <<stateVars, rendered, sends, creating, nextConv, nextId, settled>>

\* fetch resolved with res.ok and no body: the generator returns at once
StreamNoBody(i) ==
    /\ sessions[i].gen.state = "fetch"
    /\ Settle(i, GenNoBody(sessions[i].gen), sessions[i].fullText)
    /\ op' = "noBody"

\* reader.read() resolved with a chunk: the generator frames its lines, the
\* loop body runs once per payload, and a terminal line ends the loop
StreamChunk(i, value) ==
    LET s == sessions[i]
        g == GenRead(s.gen, value)
        yields == SubSeq(g.yielded, Len(s.gen.yielded) + 1, Len(g.yielded))
        fullText == Consume(s.fullText, yields)
    IN /\ s.gen.state = "read"
       /\ s.reads < MaxReads
       /\ IF g.state = "read"
          THEN /\ sessions' = [sessions EXCEPT ![i].gen = g, ![i].fullText = fullText,
                                               ![i].reads = @ + 1]
               /\ streamText' = IF yields = <<>> THEN streamText ELSE fullText
               /\ op' = "chunk"
               /\ UNCHANGED <<activeConvId, messages, input, streaming, rendered,
                              sends, creating, nextConv, nextId, settled>>
          ELSE /\ Settle(i, g, fullText)
               /\ op' = "done"

\* reader.read() resolved with done
StreamEnd(i) ==
    /\ sessions[i].gen.state = "read"
    /\ Settle(i, GenEnd(sessions[i].gen), sessions[i].fullText)
    /\ op' = "end"

\* fetch rejected, the status was not ok, or reader.read() rejected
StreamFail(i) ==
    /\ sessions[i].gen.state \in {"fetch", "read"}
    /\ Settle(i, GenThrow(sessions[i].gen), sessions[i].fullText)
    /\ op' = "fail"

\* -------------------------------------------------------- specifications

Init ==
    /\ PageInit
    /\ AuthIdle
    /\ dLines = <<>> /\ dTail = <<>> /\ dBytes = <<>> /\ dPos = 0 /\ dCut = {}
    /\ gen = NewGen

Next ==
    \/ HandleSend /\ UNCHANGED offPage
    \/ Render /\ UNCHANGED offPage
    \/ \E v \in Inputs : SetInput(v) /\ UNCHANGED offPage
    \/ NewConversationClick /\ UNCHANGED offPage
    \/ CreateResolved /\ UNCHANGED offPage
    \/ CreateFailed /\ UNCHANGED offPage
    \/ \E i \in 1..Len(sessions) : StreamOpen(i) /\ UNCHANGED offPage
    \/ \E i \in 1..Len(sessions) : StreamNoBody(i) /\ UNCHANGED offPage
    \/ \E i \in 1..Len(sessions), c \in Chunks : StreamChunk(i, c) /\ UNCHANGED offPage
    \/ \E i \in 1..Len(sessions) : StreamEnd(i) /\ UNCHANGED offPage
    \/ \E i \in 1..Len(sessions) : StreamFail(i) /\ UNCHANGED offPage

\* The chat page, every call of a handler running with the closure of a render
\* that shows the updates of the calls before it.
Spec == Init /\ [][Next]_vars

\* the transport ends a response: end-of-stream, a failure, or no body
StreamTerminates ==
    \E i \in 1..Len(sessions) :
        (StreamEnd(i) \/ StreamFail(i) \/ StreamNoBody(i)) /\ UNCHANGED offPage

\* The chat page over a transport that does not leave a response open for
\* ever: every response is ended, by its terminal line or by the transport.
SpecLive == Init /\ [][Next]_vars /\ WF_vars(StreamTerminates)

NextReentrant ==
    \/ Next
    \/ HandleSendUncommitted /\ UNCHANGED offPage

\* The chat page where handleSend may also be called twice with the closure of
\* one render.
SpecReentrant == Init /\ [][NextReentrant]_vars

NextLoaded ==
    \/ Next
    \/ \E list \in ServerLists(rendered.activeConvId) :
           MessagesLoaded(list) /\ UNCHANGED offPage

\* The chat page with the messages query of the active conversation resolving
\* and refetching at any time.
SpecLoaded == Init /\ [][NextLoaded]_vars

NextQuiet ==
    \/ HandleSend /\ UNCHANGED offPage
    \/ Render /\ UNCHANGED offPage
    \/ \E v \in Inputs : SetInput(v) /\ UNCHANGED offPage
    \/ NewConversationClick /\ UNCHANGED offPage
    \/ CreateResolved /\ UNCHANGED offPage
    \/ CreateFailed /\ UNCHANGED offPage
    \/ \E i \in 1..Len(sessions) : StreamOpen(i) /\ UNCHANGED offPage
    \/ \E i \in 1..Len(sessions) : StreamNoBody(i) /\ UNCHANGED offPage
    \/ \E i \in 1..Len(sessions), c \in QuietChunks :
           StreamChunk(i, c) /\ UNCHANGED offPage
    \/ \E i \in 1..Len(sessions) : StreamEnd(i) /\ UNCHANGED offPage
    \/ \E i \in 1..Len(sessions) : StreamFail(i) /\ UNCHANGED offPage

\* The chat page answered by responses that carry no payload line: comment and
\* blank lines, the terminal line, an empty body or no body at all.
SpecQuiet == Init /\ [][NextQuiet]_vars

DecoderNext ==
    \/ DecOpen /\ UNCHANGED offDecoder
    \/ \E k \in 0..MaxChunk : DecRead(k) /\ UNCHANGED offDecoder
    \/ DecRead(Len(dBytes) - dPos) /\ UNCHANGED offDecoder
    \/ DecEnd /\ UNCHANGED offDecoder
    \/ DecFail /\ UNCHANGED offDecoder
    \/ DecRefuse /\ UNCHANGED offDecoder

\* the generator about to be fed a body, the page idle
InitDecoder ==
    /\ DecoderInit
    /\ PageInit
    /\ AuthIdle

\* api.streamPost over every body and every split of it
SpecDecoder == InitDecoder /\ [][DecoderNext]_vars

(***************************************************************************)
(* AuthProvider: fetchUser, login, register, logout                        *)
(***************************************************************************)

\* a token left in localStorage by an earlier visit
StoredToken == 1

\* accounts login and register may be called for
Kinds == {"login", "register"}

\* fetchUser up to its first suspension: without a token it clears loading and
\* returns; with one it awaits api.get("/api/v1/auth/me"), which sends the
\* token read by getToken()
FetchUserStart(tok, waiting) ==
    IF tok = Null
    THEN /\ loading' = FALSE
         /\ fetches' = waiting
    ELSE /\ fetches' = Append(waiting, tok)
         /\ UNCHANGED loading

\* useEffect(() => { fetchUser() }, [fetchUser])
Mount ==
    /\ ~mounted
    /\ mounted' = TRUE
    /\ FetchUserStart(token, fetches)
    /\ UNCHANGED <<token, user, posts, issued>>

\* api.get resolved: setUser(userData), then the finally clause
FetchResolved(i) ==
    /\ i \in 1..Len(fetches)
    /\ user' = fetches[i]
    /\ loading' = FALSE
    /\ fetches' = Without(fetches, i)
    /\ UNCHANGED <<token, mounted, posts, issued>>

\* api.get rejected: the catch clause removes the token and clears the user,
\* then the finally clause
FetchRejected(i) ==
    /\ i \in 1..Len(fetches)
    /\ token' = Null
    /\ user' = Null
    /\ loading' = FALSE
    /\ fetches' = Without(fetches, i)
    /\ UNCHANGED <<mounted, posts, issued>>

\* login(email, password) and register(...) up to `await api.post(...)`
PostStart(kind) ==
    /\ mounted
    /\ issued + Len(posts) < MaxLogins
    /\ posts' = Append(posts, kind)
    /\ UNCHANGED <<token, user, loading, mounted, fetches, issued>>

\* the POST resolved: localStorage.setItem("access_token", res.access_token),
\* then `await fetchUser()`
PostResolved(i) ==
    /\ i \in 1..Len(posts)
    /\ issued' = issued + 1
    /\ token' = StoredToken + issued + 1
    /\ posts' = Without(posts, i)
    /\ FetchUserStart(token', fetches)
    /\ UNCHANGED <<user, mounted>>

\* the POST rejected: login throws to its caller, nothing is stored
PostRejected(i) ==
    /\ i \in 1..Len(posts)
    /\ posts' = Without(posts, i)
    /\ UNCHANGED <<token, user, loading, mounted, fetches, issued>>

\* logout(): removeItem, setUser(null)
Logout ==
    /\ mounted
    /\ token' = Null
    /\ user' = Null
    /\ UNCHANGED <<loading, mounted, fetches, posts, issued>>

\* AuthProvider as constructed, with or without a token stored earlier
AuthInit ==
    /\ token \in {Null, StoredToken}
    /\ user = Null /\ loading = TRUE /\ mounted = FALSE
    /\ fetches = <<>> /\ posts = <<>> /\ issued = 0

InitAuth ==
    /\ AuthInit
    /\ PageInit
    /\ dLines = <<>> /\ dTail = <<>> /\ dBytes = <<>> /\ dPos = 0 /\ dCut = {}
    /\ gen = NewGen

offAuth == <<decoderVars, pageVars>>

AuthNext ==
    \/ Mount /\ UNCHANGED offAuth
    \/ \E i \in 1..Len(fetches) : FetchResolved(i) /\ UNCHANGED offAuth
    \/ \E i \in 1..Len(fetches) : FetchRejected(i) /\ UNCHANGED offAuth
    \/ \E kind \in Kinds : PostStart(kind) /\ UNCHANGED offAuth
    \/ \E i \in 1..Len(posts) : PostResolved(i) /\ UNCHANGED offAuth
    \/ \E i \in 1..Len(posts) : PostRejected(i) /\ UNCHANGED offAuth
    \/ Logout /\ UNCHANGED offAuth

\* The auth provider under every interleaving of its handlers and the
\* completions of their requests.
SpecAuth == InitAuth /\ [][AuthNext]_vars

\* ------------------------------------------------ properties: the chat page

Range(q) == {q[n] : n \in 1..Len(q)}

\* handleSend has calls past their guard that have not returned
InFlight == Len(sessions)

\* C4: when the transport reports end-of-stream (no terminal line was seen),
\* handleSend ends as on success: the call returns without the error text, the
\* streaming flag is cleared, and an assistant message whose content is the
\* payloads yielded so far is appended to the transcript.
EndOfStreamIsSuccess ==
    [][op' = "end" =>
         \E i \in 1..Len(sessions) :
            /\ ~sessions[i].gen.marker
            /\ sessions' = Without(sessions, i)
            /\ settled' = Settled(sessions[i], sessions[i].gen, "finalized")
            /\ messages' = Append(messages,
                                  AssistantMessage(nextId + 1, sessions[i].conv,
                                                   Concat(sessions[i].gen.yielded)))
            /\ streamText' = <<>>
            /\ ~streaming']_vars

\* "data: Hi\n", then the stream closes: one payload "Hi", assistant message "Hi"
HiThenCloseFinalized ==
    /\ op = "end"
    /\ settled.outcome = "finalized"
    /\ settled.yielded = << <<"H", "i">> >>
    /\ messages # <<>>
    /\ messages[Len(messages)].role = "assistant"
    /\ messages[Len(messages)].content = <<"H", "i">>
    /\ ~streaming
    /\ streamText = <<>>

\* C5: while streaming, streamText is the concatenation, in order and with
\* nothing in between, of the payloads the generator of the send has yielded.
StreamTextIsPayloadsSoFar ==
    streaming => \A i \in 1..Len(sessions) : streamText = Concat(sessions[i].gen.yielded)

\* streaming, after two payloads
TwoPayloadsStreaming ==
    /\ streaming
    /\ Len(sessions) = 1
    /\ Len(sessions[1].gen.yielded) = 2
    /\ streamText = <<"H", "i", "H", "i">>

\* C6: the assistant message appended when a stream finishes has the payloads
\* of that send, concatenated in order, as its content, and no step changes a
\* message that is in the transcript: a message of the next state with the id
\* of a message of this state is that message.
FinalizedMessageIsPayloadsForGood ==
    [][/\ op' \in {"done", "end", "noBody"}
            => /\ settled'.outcome = "finalized"
               /\ messages' = Append(messages,
                                     AssistantMessage(nextId + 1, settled'.conv,
                                                      Concat(settled'.yielded)))
       /\ \A m \in Range(messages), n \in Range(messages') : n.id = m.id => n = m
      ]_vars

\* a finalized assistant message with text, followed by a later send that
\* failed
FinalizedThenLaterSendFailed ==
    /\ Len(messages) >= 3
    /\ messages[2].role = "assistant"
    /\ messages[2].content = <<"H", "i", "H", "i">>
    /\ messages[3].role = "user"
    /\ op = "fail"

\* C7: a call of handleSend while streaming changes nothing: the transcript,
\* streamText, the input and the streaming flag are as before, no request is
\* opened and no error text is set; and a request is opened only in a call of
\* handleSend that passed the guard, never later on behalf of an ignored one.
SendWhileStreamingIsNoOp ==
    [][/\ (streaming /\ op' \in {"send", "sendIgnored"})
            => /\ op' = "sendIgnored"
               /\ UNCHANGED <<activeConvId, messages, input, streaming, streamText,
                              sessions, sends, nextId>>
       /\ Len(sessions') > Len(sessions) => op' = "send"
      ]_vars

\* handleSend was called while streaming with text in the input and an active
\* conversation, and was ignored
SendIgnoredWhileStreaming ==
    /\ op = "sendIgnored"
    /\ streaming
    /\ Trim(input) # <<>>
    /\ activeConvId # Null
    /\ InFlight = 1

\* C8: at most one call of handleSend is past its guard and has not returned,
\* also when handleSend is called twice with the closure of one render.
AtMostOneSessionInFlight == InFlight <= 1

\* C9: when a send fails (before the first payload or after some), the
\* transcript is as before the failure, the streaming flag is cleared and the
\* error text is recorded; and once that is rendered, a call of handleSend with
\* text in the input and an active conversation passes the guard.
TransportFailureKeepsTranscript ==
    [][/\ op' = "fail"
            => /\ messages' = messages
               /\ ~streaming'
               /\ streamText' = ErrorText
               /\ settled'.outcome = "failed"
               /\ Len(sessions') = Len(sessions) - 1
       /\ (/\ settled.outcome = "failed"
           /\ InFlight = 0
           /\ rendered = Snapshot
           /\ Trim(input) # <<>>
           /\ activeConvId # Null
           /\ op' \in {"send", "sendIgnored"})
            => op' = "send"
      ]_vars

\* a send failed after a payload, and the next send was accepted with the
\* earlier user message still in the transcript
SendAcceptedAfterFailure ==
    /\ op = "send"
    /\ settled.outcome = "failed"
    /\ settled.yielded # <<>>
    /\ Len(messages) = 2
    /\ messages[1].role = "user"
    /\ messages[2].role = "user"
    /\ streaming

\* C10: what the page shows never holds text of a send of another
\* conversation: the live bubble (shown when streaming with a non-empty
\* streamText) belongs to a send of the conversation shown, and so does every
\* assistant message of the list shown.
NoLeakIntoOtherConversation ==
    /\ (rendered.streaming /\ rendered.streamText # <<>>)
           => \A i \in 1..Len(sessions) : sessions[i].conv = rendered.activeConvId
    /\ \A m \in Range(rendered.messages) :
           m.role = "assistant" => m.conversation_id = rendered.activeConvId

\* C11: once a send has failed, its handler has returned and the page has
\* rendered the state it left, the page shows the error text.
FailureIsShown ==
    (/\ settled.outcome = "failed"
     /\ op \in {"fail", "render"}
     /\ InFlight = 0
     /\ streamText = ErrorText
     /\ rendered = Snapshot)
        => \E n \in 1..Len(Shown(rendered)) : Shown(rendered)[n] = ErrorText

\* the continuations of a running send: the steps of its stream up to its end
StreamOps == {"open", "chunk", "done", "end", "fail", "noBody"}

\* C12: a call of handleSend that passes the guard appends one message to the
\* end of the transcript, with role user, the conversation the handler was
\* called in and the trimmed input, while the generator of the call has not
\* been started (nothing fetched, nothing yielded); and no step of a stream,
\* whether it yields, finishes or fails, takes a message out of the
\* transcript.
AcceptedSendAppendsUserMessage ==
    [][/\ op' = "send"
            => /\ messages' = Append(messages,
                                     [id |-> nextId + 1,
                                      conversation_id |-> rendered.activeConvId,
                                      role |-> "user",
                                      content |-> Trim(rendered.input)])
               /\ rendered.activeConvId # Null
               /\ Len(sessions') = Len(sessions) + 1
               /\ sessions'[Len(sessions')].gen = NewGen
               /\ sessions'[Len(sessions')].fullText = <<>>
       /\ op' \in StreamOps => IsPrefixOf(messages, messages')
      ]_vars

\* a send whose stream failed after a payload, its user message the only
\* message of the transcript
UserMessageKeptAfterFailure ==
    /\ op = "fail"
    /\ settled.yielded # <<>>
    /\ Len(messages) = 1
    /\ messages[1].role = "user"
    /\ messages[1].conversation_id = activeConvId
    /\ messages[1].content = <<"q">>

\* C13: right after a send has completed successfully, the last message of
\* the transcript is its assistant message and the one before it is the user
\* message of that send (role user, the conversation of the send).
ReplyFollowsItsUserMessage ==
    (op \in {"done", "end", "noBody"} /\ settled.outcome = "finalized")
        => /\ Len(messages) >= 2
           /\ messages[Len(messages)].role = "assistant"
           /\ messages[Len(messages)].conversation_id = settled.conv
           /\ messages[Len(messages) - 1].role = "user"
           /\ messages[Len(messages) - 1].conversation_id = settled.conv

\* the assistant messages of the transcript
AssistantMessages == {n \in 1..Len(messages) : messages[n].role = "assistant"}

\* C14: a send adds at most one assistant message, whatever follows the
\* terminal line: the assistant messages built so far (the ids drawn beyond
\* one per accepted send) are never more than the accepted sends that have
\* returned, the transcript holds no more assistant messages than were built,
\* and no message is in the transcript twice.
OneAssistantMessagePerSend ==
    /\ nextId - sends <= sends - InFlight
    /\ Cardinality(AssistantMessages) <= nextId - sends
    /\ \A a, b \in 1..Len(messages) : a # b => messages[a].id # messages[b].id

\* a send whose first chunk carried a data line, the terminal line and more
\* lines after it: one assistant message
DoneThenMoreLinesFinalizedOnce ==
    /\ op = "done"
    /\ settled.reads = 0
    /\ settled.yielded = << <<"H", "i">> >>
    /\ sends = 1
    /\ Cardinality(AssistantMessages) = 1
    /\ Len(messages) = 2

\* C17: from the chunk that delivers the newline of the first terminal line
\* on, the generator has returned, what it has yielded is the payloads of the
\* data lines ahead of that line (those of the same chunk included, none of
\* the lines after it), and no step yields or reads anything more.
NothingAfterMarker ==
    [][/\ (FirstDoneEnd > 0 /\ dPos' >= FirstDoneEnd)
            => /\ gen'.state = "returned"
               /\ gen'.yielded = PayloadsBeforeDone(dLines)
       /\ (FirstDoneEnd > 0 /\ dPos >= FirstDoneEnd) => UNCHANGED <<gen, dPos>>
      ]_vars

\* "data: Hi\nevent: done\ndata: Hi\n" delivered as one chunk: the payload
\* ahead of the terminal line yielded, the one after it not
DataAroundMarkerInOneChunk ==
    /\ dLines = << DataPrefix \o <<"H", "i">>, DonePrefix, DataPrefix \o <<"H", "i">> >>
    /\ dTail = <<>>
    /\ dCut = {}
    /\ dPos = Len(dBytes)
    /\ gen.state = "returned"
    /\ gen.marker
    /\ gen.yielded = << <<"H", "i">> >>

\* C19: a failure of the transport ends the generator with one throw: a
\* refused request throws with nothing yielded, a failed read throws with what
\* was yielded before it and nothing more, the generator has not ended on the
\* marker, and once it has thrown no step yields, reads or throws again.
TransportFailureEndsStream ==
    [][/\ (gen.state # "threw" /\ gen'.state = "threw")
            => /\ gen'.yielded = gen.yielded
               /\ gen.state = "fetch" => gen'.yielded = <<>>
               /\ gen.state \in {"fetch", "read"}
               /\ ~gen'.marker
               /\ dPos' = dPos
       /\ gen.state = "threw" => UNCHANGED <<gen, dPos>>
      ]_vars

\* a read failed after a payload had been yielded and before the body was
\* delivered in full
ReadFailedAfterPayload ==
    /\ gen.state = "threw"
    /\ Len(gen.yielded) = 1
    /\ gen.buffer # <<>>
    /\ dPos < Len(dBytes)

\* C20: the step in which a send fails appends no message and builds none,
\* and leaves nothing of the text received in the pending content: streamText
\* is the error text, whatever had been accumulated, and a render of the
\* state shows no live bubble.
FailureDiscardsPartialText ==
    [][op' = "fail"
         => /\ settled'.outcome = "failed"
            /\ messages' = messages
            /\ nextId' = nextId
            /\ streamText' = ErrorText
            /\ streamText' # Concat(settled'.yielded)
            /\ Bubble(Snapshot') = <<>>
      ]_vars

\* a send failed after two payloads and the page has rendered: no assistant
\* message, no live bubble
PartialTextGoneAfterFailure ==
    /\ op = "render"
    /\ settled.outcome = "failed"
    /\ Len(settled.yielded) = 2
    /\ rendered = Snapshot
    /\ AssistantMessages = {}
    /\ Len(messages) = 1
    /\ Bubble(rendered) = <<>>

\* the text s has the text sub in it
Contains(s, sub) ==
    \E k \in 0..(Len(s) - Len(sub)) : SubSeq(s, k + 1, k + Len(sub)) = sub

\* C21: an accepted send leaves streamText empty before anything of its
\* stream is consumed, whatever a failed send had left there; the pending text
\* of a running send never has the error text in it, and neither has the
\* content of any message of the transcript.
ErrorTextClearedByNextSend ==
    /\ op = "send" => (streaming /\ streamText = <<>>)
    /\ streaming => ~Contains(streamText, ErrorText)
    /\ \A m \in Range(messages) : ~Contains(m.content, ErrorText)

\* a first send failed, the next one was accepted and finished with the
\* reply "Hi"
ReplyAfterFailedSend ==
    /\ op = "done"
    /\ Len(messages) = 3
    /\ messages[1].role = "user"
    /\ messages[2].role = "user"
    /\ messages[3].role = "assistant"
    /\ messages[3].content = <<"H", "i">>

\* C22: the active conversation and the conversation of every running send
\* are conversations the backend has created; the active conversation changes
\* only in the step in which a create call resolves, to the conversation just
\* created; a send called while a create call is pending goes to the
\* conversation of the render it was called in and is ignored when that render
\* has none; and a create call that fails changes neither the active
\* conversation nor the transcript.
SendsTargetCreatedConversations ==
    [][/\ activeConvId' \in 0..nextConv'
       /\ \A i \in 1..Len(sessions') : sessions'[i].conv \in 1..nextConv'
       /\ activeConvId' # activeConvId
            => /\ op' = "created"
               /\ creating' = creating - 1
               /\ nextConv' = nextConv + 1
               /\ activeConvId' = nextConv'
       /\ (op' = "send" /\ creating > 0)
            => /\ sessions'[Len(sessions')].conv = rendered.activeConvId
               /\ messages'[Len(messages')].conversation_id = rendered.activeConvId
               /\ rendered.activeConvId \in 1..nextConv
       /\ (op' \in {"send", "sendIgnored"} /\ rendered.activeConvId = Null)
            => (op' = "sendIgnored" /\ sessions' = sessions /\ messages' = messages)
       /\ op' = "createFailed" => UNCHANGED <<activeConvId, messages, nextConv>>
      ]_vars

\* a send accepted on conversation 1 while the create call of a second
\* conversation is pending
SendWhileCreatePending ==
    /\ op = "send"
    /\ creating = 1
    /\ nextConv = 1
    /\ activeConvId = 1
    /\ Len(sessions) = 1
    /\ sessions[1].conv = 1

\* C23: a send whose conversation was left while it was streaming reads no
\* further chunk.  A running send has put its user message in the transcript;
\* the transcript is empty under a running send only when a new conversation
\* became active after the send was accepted, so in such a state the last
\* step is never the consumption of a chunk.
AbandonedSessionStopsReading ==
    (InFlight >= 1 /\ messages = <<>>) => op # "chunk"

\* C24: a send on a conversation other than the one a running send belongs to
\* is accepted: when the page has rendered its state, shows an active
\* conversation and text in the input, and the one running send belongs to
\* another conversation, a call of handleSend passes the guard.
SendOnOtherConversationAccepted ==
    [][(/\ InFlight = 1
        /\ rendered = Snapshot
        /\ activeConvId # Null
        /\ sessions[1].conv # activeConvId
        /\ Trim(input) # <<>>
        /\ sends < MaxSends
        /\ op' \in {"send", "sendIgnored"})
            => op' = "send"
      ]_vars

\* C25: the streaming flag is set as long as a send is running, and whenever
\* it is set it is cleared again later, on the success path and on the error
\* path, when the transport ends every response.
SendReturnsToIdle ==
    /\ [](InFlight >= 1 => streaming)
    /\ streaming ~> ~streaming

\* two sends have run, one finished with a reply and the later one failed,
\* and the page is idle
IdleAfterSuccessAndFailure ==
    /\ sends = 2
    /\ InFlight = 0
    /\ ~streaming
    /\ settled.outcome = "failed"
    /\ Len(messages) = 3
    /\ messages[2].role = "assistant"

\* C26: while a send is running on the active conversation, the transcript
\* holds a user message of that conversation with the text of the send,
\* whenever the loaded list arrives.
TranscriptKeptDuringSend ==
    \A i \in 1..Len(sessions) :
        sessions[i].conv = activeConvId
            => \E m \in Range(messages) :
                   /\ m.role = "user"
                   /\ m.conversation_id = sessions[i].conv
                   /\ m.content = sessions[i].body

\* C27: every message of the list the page shows, user or assistant, carries
\* the conversation the page shows as active.
MessagesBelongToActiveConversation ==
    \A m \in Range(rendered.messages) : m.conversation_id = rendered.activeConvId

\* C28: a response that yielded no payload (the body ended at once or after
\* ignored lines only, the terminal line came first, or there was no body) ends
\* the send as a success: the assistant message appended last has empty
\* content and belongs to the send's conversation, nothing is pending and
\* the error text is not shown.
EmptyResponseGivesEmptyReply ==
    (op \in {"end", "done", "noBody"} /\ settled.yielded = <<>>) =>
        /\ settled.outcome = "finalized"
        /\ messages # <<>>
        /\ messages[Len(messages)] = AssistantMessage(nextId, settled.conv, <<>>)
        /\ streamText = <<>>
        /\ ~streaming

\* two reads of ignored lines, then the body ends: an empty reply
IgnoredLinesThenCloseFinalized ==
    /\ op = "end"
    /\ settled.reads = 2
    /\ settled.yielded = <<>>
    /\ settled.outcome = "finalized"
    /\ messages[Len(messages)].role = "assistant"
    /\ messages[Len(messages)].content = <<>>

IsBlank(s) == \A k \in 1..Len(s) : s[k] = " "

\* t is s without its leading and trailing white space
IsTrimOf(t, s) ==
    /\ t = <<>> \/ (t[1] # " " /\ t[Len(t)] # " ")
    /\ \E a, b \in 0..Len(s) :
          /\ a + Len(t) + b = Len(s)
          /\ IsBlank(SubSeq(s, 1, a))
          /\ SubSeq(s, a + 1, a + Len(t)) = t
          /\ IsBlank(SubSeq(s, a + Len(t) + 1, Len(s)))

\* C30: a call of handleSend in a render whose input is empty or white space
\* only, or which has no active conversation, changes nothing (transcript,
\* streamText, input, streaming flag) and opens no request; an accepted call
\* appends a user message whose content is the input without its leading and
\* trailing white space, sends the same text as the request body, and clears
\* the input.
RejectedSendIsNoOpAcceptedSendTrims ==
    [][op' \in {"send", "sendIgnored"} =>
         IF IsBlank(rendered.input) \/ rendered.activeConvId = Null
         THEN /\ op' = "sendIgnored"
              /\ UNCHANGED <<activeConvId, messages, input, streaming, streamText,
                             sessions, sends, nextId>>
         ELSE op' = "send" =>
                /\ Len(messages') = Len(messages) + 1
                /\ messages'[Len(messages')].role = "user"
                /\ messages'[Len(messages')].content # <<>>
                /\ IsTrimOf(messages'[Len(messages')].content, rendered.input)
                /\ Len(sessions') = Len(sessions) + 1
                /\ sessions'[Len(sessions')].body = messages'[Len(messages')].content
                /\ sessions'[Len(sessions')].conv = rendered.activeConvId
                /\ input' = <<>>
      ]_vars

\* "q " was sent: the user message and the request body are "q", the input
\* is empty
TrimmedInputSent ==
    /\ op = "send"
    /\ messages[Len(messages)].role = "user"
    /\ messages[Len(messages)].content = <<"q">>
    /\ sessions[Len(sessions)].body = <<"q">>
    /\ input = <<>>

\* C29: whenever the auth provider holds a user, an access token is stored.
UserImpliesToken == user # Null => token # Null

====
